---- MODULE Spec2Model ----
(***************************************************************************)
(* A model of moelog (src/moelog/main.py): the MoeLogger facade, its       *)
(* formatters and attribute filter, the severity registration and the      *)
(* file-name selection of the file handler, together with the part of      *)
(* Python's logging module the facade drives (root logger, basicConfig,    *)
(* handler level checks, handler filters, %-style formatting).             *)
(*                                                                         *)
(* Python values are encoded as follows.  A str is a sequence of tokens    *)
(* (the empty str is <<>>), so that formatting can concatenate; None is    *)
(* the one-token value PyNone.  Attribute names, dict keys and severity    *)
(* names are TLA+ strings.  A dict is a sequence of <<key, value>> pairs   *)
(* in insertion order, as Python keeps it.                                 *)
(***************************************************************************)
EXTENDS Integers, Sequences, FiniteSets, TLC

VARIABLES
    facades,        \* the MoeLogger objects built so far, in construction order
    filters,        \* the ExtraAttributes objects built so far: id -> extra_attr dict
    root_handlers,  \* logging.root.handlers
    root_level,     \* logging.root.level
    level_to_name,  \* logging._levelToName
    name_to_level,  \* logging._nameToLevel
    module_attrs,   \* attributes of the logging module: name -> [kind, num]
    logger_attrs,   \* attributes of logging.getLoggerClass(): name -> [kind, num]
    last_result,    \* what the last addLoggingLevel call returned ("none" before any)
    emitted,        \* the last logging call: its severity and what each handler wrote
    last_set,       \* history: facade -> attribute -> value of the last update_filter(name=v)
    files,          \* the logs directory: file name -> size in bytes
    thr             \* the threads of the concurrent specification

vars == <<facades, filters, root_handlers, root_level, level_to_name, name_to_level,
          module_attrs, logger_attrs, last_result, emitted, last_set, files, thr>>

registry == <<level_to_name, name_to_level, module_attrs, logger_attrs>>

-----------------------------------------------------------------------------
(* Bounds of the model.                                                    *)

MaxFacades == 2
MaxFilters == 3
MaxFileSize == 2
MaxCount == 2

-----------------------------------------------------------------------------
(* Python values and dicts.                                                *)

PyNone == <<"#None">>
Str(tok) == <<tok>>
EmptyStr == <<>>

\* str(v), as the % operator applies it to a %(name)s field
PyStr(v) == IF v = PyNone THEN Str("None") ELSE v

DictHas(d, k) == \E i \in 1..Len(d) : d[i][1] = k

\* d.get(k, default) and getattr(obj, k, default)
DictGet(d, k, default) ==
    IF DictHas(d, k) THEN d[CHOOSE i \in 1..Len(d) : d[i][1] = k][2] ELSE default

\* d[k] = v: in place when the key is there, appended otherwise
DictSet(d, k, v) ==
    IF DictHas(d, k)
    THEN [i \in 1..Len(d) |-> IF d[i][1] = k THEN <<k, v>> ELSE d[i]]
    ELSE Append(d, <<k, v>>)

DictKeys(d) == [i \in 1..Len(d) |-> d[i][1]]

\* for key, value in src.items(): d[key] = value
RECURSIVE DictUpdate(_, _)
DictUpdate(d, src) ==
    IF src = <<>> THEN d
    ELSE DictUpdate(DictSet(d, src[1][1], src[1][2]), Tail(src))

-----------------------------------------------------------------------------
(* Python's logging module as the facade finds it at import.               *)

StdLevelToName ==
    (50 :> "CRITICAL") @@ (40 :> "ERROR") @@ (30 :> "WARNING") @@
    (20 :> "INFO") @@ (10 :> "DEBUG") @@ (0 :> "NOTSET")

StdNameToLevel ==
    ("CRITICAL" :> 50) @@ ("FATAL" :> 50) @@ ("ERROR" :> 40) @@ ("WARN" :> 30) @@
    ("WARNING" :> 30) @@ ("INFO" :> 20) @@ ("DEBUG" :> 10) @@ ("NOTSET" :> 0)

LevelAttr(n) == [kind |-> "level", num |-> n]
FuncAttr(n) == [kind |-> "func", num |-> n]

\* the severity constants and the severity-named functions of the logging module
StdModuleAttrs ==
    [n \in DOMAIN StdNameToLevel |-> LevelAttr(StdNameToLevel[n])] @@
    ("critical" :> FuncAttr(50)) @@ ("fatal" :> FuncAttr(50)) @@ ("error" :> FuncAttr(40)) @@
    ("warning" :> FuncAttr(30)) @@ ("warn" :> FuncAttr(30)) @@ ("info" :> FuncAttr(20)) @@
    ("debug" :> FuncAttr(10))

\* the severity-named methods of logging.Logger
StdLoggerAttrs ==
    ("critical" :> FuncAttr(50)) @@ ("fatal" :> FuncAttr(50)) @@ ("error" :> FuncAttr(40)) @@
    ("warning" :> FuncAttr(30)) @@ ("warn" :> FuncAttr(30)) @@ ("info" :> FuncAttr(20)) @@
    ("debug" :> FuncAttr(10))

\* the handler basicConfig() makes when it is given none
DefaultHandler == [facade |-> 0, kind |-> "default"]
ConsoleOf(i) == [facade |-> i, kind |-> "console"]
FileOf(i) == [facade |-> i, kind |-> "file"]

\* the logging module's global state, passed through the calls of one operation
Logging(l2n, n2l, mattrs, lattrs, handlers, level, out, fs) ==
    [level_to_name |-> l2n, name_to_level |-> n2l, module_attrs |-> mattrs,
     logger_attrs |-> lattrs, root_handlers |-> handlers, root_level |-> level,
     emitted |-> out, files |-> fs]

NoCall == [func |-> "", levelno |-> 0, outs |-> <<>>]

\* logging.basicConfig(handlers=hs, level=lvl): nothing at all once the root logger
\* has a handler; lvl = -1 stands for "no level given"
BasicConfig(lg, hs, lvl) ==
    IF Len(lg.root_handlers) = 0
    THEN [lg EXCEPT !.root_handlers = hs,
                    !.root_level = IF lvl = -1 THEN @ ELSE lvl]
    ELSE lg

\* logging.getLevelName(levelno)
GetLevelName(lg, levelno) ==
    IF levelno \in DOMAIN lg.level_to_name THEN lg.level_to_name[levelno] ELSE "Level"

-----------------------------------------------------------------------------
(* Formatters and the attribute filter.                                    *)

\* ConsoleFormatter.levels
ConsoleLevels ==
    ("DEBUG" :> <<"yellow", "#fff9ae">>) @@ ("INFO" :> <<"green", "#d3ffb3">>) @@
    ("WARNING" :> <<"orange", "#ffc100">>) @@ ("TIMER" :> <<"blue", "#71c7ec">>) @@
    ("ERROR" :> <<"red", "#ba262b">>) @@ ("CRITICAL" :> <<"#8d0101", "#d5212e">>) @@
    ("APP_INFO" :> <<"#5fd700", "#5fffaf">>)

Timestamp(record) == <<record.created, "Z">>

\* '[%(name)s | %(funcName)s | LN%(lineno)d]: %(message)s'
CanonicalMessage(record) ==
    <<"[", record.name, " | ", record.funcName, " | LN", record.lineno, "]: ">> \o record.msg

Rendering(kind, colors, obj) == [kind |-> kind, colors |-> colors, obj |-> obj]

\* ConsoleFormatter.get_format and ConsoleFormatter.format, without a custom tag
ConsoleFormat(record) ==
    LET colors == IF record.levelname \in DOMAIN ConsoleLevels
                  THEN ConsoleLevels[record.levelname] ELSE <<>>
    IN  Rendering("text", colors,
                  << <<"asctime", Timestamp(record)>>,
                     <<"tag", <<" | ", record.name, " | ", record.funcName, " | LN",
                                record.lineno, " | ", record.levelname>> >>,
                     <<"message", record.msg>> >>)

\* a variant of the loop below that looks the record up by the output key, not by
\* the source name: getattr(record, key, '')
RECURSIVE JSONExtraFieldsByKey(_, _, _)
JSONExtraFieldsByKey(obj, logging_fields, record) ==
    IF logging_fields = <<>> THEN obj
    ELSE LET key == logging_fields[1][1]
             value == logging_fields[1][2]
         IN  JSONExtraFieldsByKey(
                 IF value # "" THEN DictSet(obj, key, DictGet(record.attrs, key, EmptyStr))
                 ELSE obj,
                 Tail(logging_fields), record)

\* the loop of JSONFormatter.format over self.logging_fields.items()
RECURSIVE JSONExtraFields(_, _, _)
JSONExtraFields(obj, logging_fields, record) ==
    IF logging_fields = <<>> THEN obj
    ELSE LET key == logging_fields[1][1]
             value == logging_fields[1][2]
         IN  JSONExtraFields(
                 IF value # "" THEN DictSet(obj, key, DictGet(record.attrs, value, EmptyStr))
                 ELSE obj,
                 Tail(logging_fields), record)

JSONFormat(logging_fields, record) ==
    Rendering("json", <<>>,
        JSONExtraFields(<< <<"@timestamp", Timestamp(record)>>,
                           <<"log.level", Str(record.levelname)>>,
                           <<"message", CanonicalMessage(record)>> >>,
                        logging_fields, record))

\* the file handler's logging.Formatter(file_format): the % operator raises on a
\* record without app_name, and Handler.handleError swallows it: nothing is written
FileFormat(record) ==
    IF ~DictHas(record.attrs, "app_name")
    THEN Rendering("error", <<>>, <<>>)
    ELSE Rendering("file", <<>>,
            << <<"@timestamp", Timestamp(record)>>,
               <<"app.name", PyStr(DictGet(record.attrs, "app_name", EmptyStr))>>,
               <<"log.level", Str(record.levelname)>>,
               <<"message", CanonicalMessage(record)>> >>)

\* logging.Formatter(BASIC_FORMAT) of the handler basicConfig() makes
BasicFormat(record) ==
    Rendering("basic", <<>>, << <<"levelname", Str(record.levelname)>>,
                                <<"name", Str(record.name)>>, <<"message", record.msg>> >>)

\* ExtraAttributes.filter: record.__setattr__(key, value) for every item
ExtraAttributesFilter(extra_attr, record) ==
    [record EXCEPT !.attrs = DictUpdate(@, extra_attr)]

-----------------------------------------------------------------------------
(* The dispatch of one record: Logger.callHandlers and Handler.handle.     *)

\* the level the handler was given: setLevel(self.level) for the console handler
\* (_console_handler), setLevel(logging.WARNING) for the file handler (_file_handler)
HandlerLevel(F, h) ==
    CASE h.kind = "console" -> F[h.facade].console_level
      [] h.kind = "file" -> StdNameToLevel["WARNING"]
      [] OTHER -> StdNameToLevel["NOTSET"]

HandlerFilters(F, h) ==
    CASE h.kind = "console" -> F[h.facade].console_filters
      [] h.kind = "file" -> F[h.facade].file_filters
      [] OTHER -> <<>>

\* the formatter the handler was given
HandlerFormat(F, h, record) ==
    CASE h.kind = "console" ->
            IF F[h.facade].json_format
            THEN JSONFormat(F[h.facade].logging_fields, record)
            ELSE ConsoleFormat(record)
      [] h.kind = "file" -> FileFormat(record)
      [] OTHER -> BasicFormat(record)

\* Handler.filter: every filter of the handler, in attachment order, on the one record
RECURSIVE ApplyFilters(_, _, _)
ApplyFilters(Fl, ids, record) ==
    IF ids = <<>> THEN record
    ELSE ApplyFilters(Fl, Tail(ids), ExtraAttributesFilter(Fl[Head(ids)], record))

\* what one handler did with the record: the record as it formatted it, and the result
Written(h, record, out) ==
    [handler |-> h, record |-> record, attrs |-> record.attrs, out |-> out]

\* Logger.callHandlers: the handlers in order, each one that the record's level
\* reaches filtering and then formatting the same record object
RECURSIVE CallHandlers(_, _, _, _, _)
CallHandlers(F, Fl, hs, record, outs) ==
    IF hs = <<>> THEN outs
    ELSE LET h == Head(hs)
             seen == ApplyFilters(Fl, HandlerFilters(F, h), record)
         IN  IF record.levelno >= HandlerLevel(F, h)
             THEN CallHandlers(F, Fl, Tail(hs), seen,
                               Append(outs, Written(h, seen, HandlerFormat(F, h, seen))))
             ELSE CallHandlers(F, Fl, Tail(hs), record, outs)

\* FileHandler.emit appends the line to the handler's file (one size unit a line)
RECURSIVE AppendLines(_, _, _)
AppendLines(F, fs, outs) ==
    IF outs = <<>> THEN fs
    ELSE LET o == Head(outs)
             name == F[o.handler.facade].log_file
         IN  AppendLines(F,
                 IF o.handler.kind = "file" /\ o.out.kind # "error"
                 THEN [fs EXCEPT ![name] = @ + 1] ELSE fs,
                 Tail(outs))

\* Logger.makeRecord: the LogRecord of one call, extra stored as its attributes
MakeRecord(lg, levelno, msg, extra) ==
    [levelno |-> levelno, levelname |-> GetLevelName(lg, levelno),
     name |-> "root", funcName |-> "caller", lineno |-> "1",
     created |-> "now", msg |-> msg, attrs |-> extra]

\* a module-level logging call logging.<func>(msg, extra=extra): basicConfig() first
\* when the root logger has no handler, then root.log
LoggingCall(lg, F, Fl, func, msg, extra) ==
    LET lg1 == IF Len(lg.root_handlers) = 0 THEN BasicConfig(lg, <<DefaultHandler>>, -1) ELSE lg
        levelno == lg.module_attrs[func].num
        record == MakeRecord(lg, levelno, msg, extra)
        outs == IF levelno >= lg1.root_level
                THEN CallHandlers(F, Fl, lg1.root_handlers, record, <<>>)
                ELSE <<>>
    IN  [lg1 EXCEPT !.emitted = [func |-> func, levelno |-> levelno, outs |-> outs],
                    !.files = AppendLines(F, @, outs)]

-----------------------------------------------------------------------------
(* MoeLogger.addLoggingLevel.                                              *)

\* str.lower() on the severity names the model registers
Lower(s) ==
    CASE s \in {"TIMER", "Timer", "timer"} -> "timer"
      [] s \in {"APP_INFO", "app_info"} -> "app_info"
      [] s \in {"NOTSET", "Notset", "notset"} -> "notset"
      [] s \in {"TRACE", "Trace", "trace"} -> "trace"
      [] s \in {"DEBUG", "Debug", "debug"} -> "debug"
      [] s \in {"INFO", "Info", "info"} -> "info"
      [] s \in {"WARN", "Warn", "warn"} -> "warn"
      [] s \in {"WARNING", "Warning", "warning"} -> "warning"
      [] s \in {"ERROR", "Error", "error"} -> "error"
      [] s \in {"CRITICAL", "Critical", "critical"} -> "critical"
      [] s \in {"FATAL", "Fatal", "fatal"} -> "fatal"
      [] OTHER -> s

Returned(lg, result) == [lg |-> lg, result |-> result]

AlreadyDefined(what, where) == <<what, " already defined in ", where>>

\* methodName = "" stands for the default None
AddLoggingLevel(lg, F, Fl, levelName, levelNum, methodName) ==
    LET method == IF methodName = "" THEN Lower(levelName) ELSE methodName
    IN  IF levelName \in DOMAIN lg.module_attrs
        THEN Returned(LoggingCall(lg, F, Fl, "debug",
                                  AlreadyDefined(levelName, "logging module"), <<>>), FALSE)
        ELSE IF method \in DOMAIN lg.module_attrs
        THEN Returned(LoggingCall(lg, F, Fl, "debug",
                                  AlreadyDefined(levelName, "logging module"), <<>>), FALSE)
        ELSE IF method \in DOMAIN lg.logger_attrs
        THEN Returned(LoggingCall(lg, F, Fl, "debug",
                                  AlreadyDefined(method, "logger class"), <<>>), FALSE)
        ELSE Returned(
                [lg EXCEPT
                    !.level_to_name = (levelNum :> levelName) @@ @,
                    !.name_to_level = (levelName :> levelNum) @@ @,
                    !.module_attrs = (method :> FuncAttr(levelNum)) @@
                                     (levelName :> LevelAttr(levelNum)) @@ @,
                    !.logger_attrs = (method :> FuncAttr(levelNum)) @@ @],
                TRUE)

-----------------------------------------------------------------------------
(* The file handler's choice of file.                                      *)

\* f'{timestamp}.{ext}' for n = -1 and f'{timestamp}.{cnt}.{ext}' for n = cnt
LogFileName(date, n) == [date |-> date, n |-> n]

NoFile == LogFileName("", -1)

\* os.path.isfile
IsFile(fs, name) == name \in DOMAIN fs

\* the while loop of _file_handler: cnt counts up until the name is free
RECURSIVE FirstFreeName(_, _, _)
FirstFreeName(fs, date, cnt) ==
    IF IsFile(fs, LogFileName(date, cnt))
    THEN FirstFreeName(fs, date, cnt + 1)
    ELSE LogFileName(date, cnt)

\* a variant of the test below that also splits a file of exactly max_bytes
OversizedOrFull(fs, log_file, max_bytes) ==
    IsFile(fs, log_file) /\ fs[log_file] >= max_bytes

\* os.path.isfile(log_file) and os.path.getsize(log_file) > self.max_bytes
Oversized(fs, log_file, max_bytes) == IsFile(fs, log_file) /\ fs[log_file] > max_bytes

SelectLogFile(fs, date, max_bytes) ==
    IF Oversized(fs, LogFileName(date, -1), max_bytes)
    THEN FirstFreeName(fs, date, 1)
    ELSE LogFileName(date, -1)

\* logging.FileHandler(log_file, mode='a+') opens, and so creates, the file at once
OpenAppend(fs, name) == IF IsFile(fs, name) THEN fs ELSE (name :> 0) @@ fs

-----------------------------------------------------------------------------
(* The MoeLogger facade.                                                   *)

\* str.upper() on the minimum levels the model passes
Upper(s) ==
    CASE s \in {"debug", "Debug", "DEBUG"} -> "DEBUG"
      [] s \in {"info", "INFO"} -> "INFO"
      [] s \in {"warn", "WARN"} -> "WARN"
      [] s \in {"warning", "WARNING"} -> "WARNING"
      [] s \in {"error", "ERROR"} -> "ERROR"
      [] s \in {"critical", "CRITICAL"} -> "CRITICAL"
      [] s \in {"fatal", "FATAL"} -> "FATAL"
      [] s \in {"verbose", "VERBOSE"} -> "VERBOSE"
      [] s \in {"timer", "TIMER"} -> "TIMER"
      [] OTHER -> s

RecognizedLevels == {"DEBUG", "INFO", "ERROR", "WARN", "WARNING", "CRITICAL", "FATAL"}

\* _console_handler: self.level if self.level in [...] else 'WARNING'
ValidatedLevel(level) == IF level \in RecognizedLevels THEN level ELSE "WARNING"

\* the handlers setup_logger gives basicConfig
FacadeHandlers(self, i) ==
    IF self.has_file THEN <<FileOf(i), ConsoleOf(i)>> ELSE <<ConsoleOf(i)>>

\* setup_logger: logging.basicConfig(handlers=..., level=self.level)
SetupLoggerCall(lg, self, i) ==
    BasicConfig(lg, FacadeHandlers(self, i), lg.name_to_level[self.level])

\* configure_logging's two registrations
RegisterCustomLevels(lg, F, Fl) ==
    AddLoggingLevel(
        AddLoggingLevel(lg, F, Fl, "TIMER", StdNameToLevel["CRITICAL"] + 5, "").lg,
        F, Fl, "APP_INFO", StdNameToLevel["CRITICAL"] + 6, "").lg

CurrentLogging ==
    Logging(level_to_name, name_to_level, module_attrs, logger_attrs,
            root_handlers, root_level, emitted, files)

SetLogging(lg) ==
    /\ level_to_name' = lg.level_to_name
    /\ name_to_level' = lg.name_to_level
    /\ module_attrs' = lg.module_attrs
    /\ logger_attrs' = lg.logger_attrs
    /\ root_handlers' = lg.root_handlers
    /\ root_level' = lg.root_level
    /\ emitted' = lg.emitted
    /\ files' = lg.files

\* MoeLogger.__init__: configure_logging (the registrations, _file_handler when
\* log_to_file, _console_handler), then setup_logger; date is datetime.utcnow()
Construct(json_format, log_level, logging_fields, log_to_file, max_bytes, date) ==
    /\ Len(facades) < MaxFacades
    /\ LET i == Len(facades) + 1
           lg1 == RegisterCustomLevels(CurrentLogging, facades, filters)
           log_file == IF log_to_file THEN SelectLogFile(lg1.files, date, max_bytes) ELSE NoFile
           lg2 == IF log_to_file THEN [lg1 EXCEPT !.files = OpenAppend(@, log_file)] ELSE lg1
           level == ValidatedLevel(Upper(log_level))
           self == [json_format |-> json_format, level |-> level, log_level |-> log_level,
                    logging_fields |-> logging_fields, log_to_file |-> log_to_file,
                    max_bytes |-> max_bytes, has_file |-> log_to_file,
                    log_file |-> log_file, file_filters |-> <<>>,
                    console_level |-> lg2.name_to_level[level], console_filters |-> <<>>]
       IN  /\ facades' = Append(facades, self)
           /\ last_set' = Append(last_set, <<>>)
           /\ SetLogging(SetupLoggerCall(lg2, self, i))
    /\ UNCHANGED <<filters, last_result, thr>>

\* MoeLogger.setup_logger, called again on an existing facade
SetupLogger(i) ==
    /\ i \in 1..Len(facades)
    /\ SetLogging(SetupLoggerCall(CurrentLogging, facades[i], i))
    /\ UNCHANGED <<facades, filters, last_result, last_set, thr>>

\* the first filter of the console handler, in attachment order, whose extra_attr
\* holds a value other than None for the field; 0 when there is none
FirstDeclaring(Fl, ids, field) ==
    LET found == {k \in 1..Len(ids) : DictGet(Fl[ids[k]], field, PyNone) # PyNone}
    IN  IF found = {} THEN 0 ELSE ids[CHOOSE k \in found : \A m \in found : k <= m]

\* _add_filter: one ExtraAttributes object, on the console handler and, when there
\* is one, on the file handler
AddFilter(self, id) ==
    [self EXCEPT !.console_filters = Append(@, id),
                 !.file_filters = IF self.has_file THEN Append(@, id) ELSE @]

RECURSIVE DictRemoveKeys(_, _)
DictRemoveKeys(d, ks) ==
    IF d = <<>> THEN <<>>
    ELSE IF d[1][1] \in ks THEN DictRemoveKeys(Tail(d), ks)
    ELSE <<d[1]>> \o DictRemoveKeys(Tail(d), ks)

\* history of the calls of the form update_filter(name=v): a call with several
\* keyword arguments sets no expectation for the names it passes
Remember(expected, kwargs) ==
    IF Len(kwargs) = 1 THEN DictSet(expected, kwargs[1][1], kwargs[1][2])
    ELSE DictRemoveKeys(expected, {kwargs[k][1] : k \in 1..Len(kwargs)})

\* MoeLogger.update_filter(**kwargs) -> _update_filter
UpdateFilter(i, kwargs) ==
    /\ i \in 1..Len(facades)
    /\ Len(kwargs) >= 1
    /\ LET field == kwargs[1][1]
           value == kwargs[1][2]
           hit == FirstDeclaring(filters, facades[i].console_filters, field)
       IN  IF hit # 0
           THEN /\ filters' = [filters EXCEPT ![hit] = DictSet(@, field, value)]
                /\ UNCHANGED facades
           ELSE /\ Len(filters) < MaxFilters
                /\ filters' = Append(filters, kwargs)
                /\ facades' = [facades EXCEPT ![i] = AddFilter(@, Len(filters) + 1)]
    /\ last_set' = [last_set EXCEPT ![i] = Remember(@, kwargs)]
    /\ UNCHANGED <<root_handlers, root_level, registry, last_result, emitted, files, thr>>

\* a severity-named call of the logging module, such as logging.warning(msg, extra=extra)
Emit(func, extra) ==
    /\ func \in DOMAIN module_attrs
    /\ module_attrs[func].kind = "func"
    /\ LET lg == LoggingCall(CurrentLogging, facades, filters, func, <<"hello">>, extra)
       IN  /\ \A name \in DOMAIN lg.files : lg.files[name] <= MaxFileSize
           /\ SetLogging(lg)
    /\ UNCHANGED <<facades, filters, last_result, last_set, thr>>

\* a direct call of the static method MoeLogger.addLoggingLevel
RegisterLevel(levelName, levelNum, methodName) ==
    LET r == AddLoggingLevel(CurrentLogging, facades, filters, levelName, levelNum, methodName)
    IN  /\ SetLogging(r.lg)
        /\ last_result' = IF r.result THEN "True" ELSE "False"
        /\ UNCHANGED <<facades, filters, last_set, thr>>

\* the process as Python starts it: nothing configured, an empty logs directory
FreshProcess ==
    /\ facades = <<>>
    /\ filters = <<>>
    /\ root_handlers = <<>>
    /\ root_level = StdNameToLevel["WARNING"]
    /\ level_to_name = StdLevelToName
    /\ name_to_level = StdNameToLevel
    /\ module_attrs = StdModuleAttrs
    /\ logger_attrs = StdLoggerAttrs
    /\ last_result = "none"
    /\ emitted = NoCall
    /\ last_set = <<>>
    /\ thr = <<>>

-----------------------------------------------------------------------------
(* The inputs the callers pass.                                            *)

\* update_filter(name=v)
OneKwarg(names, values) == {<< <<n, v>> >> : n \in names, v \in values}

\* update_filter(n1=v1, n2=v2)
TwoKwargs(names, values) ==
    {<< <<n1, v1>>, <<n2, v2>> >> : n1 \in names, n2 \in names, v1 \in values, v2 \in values}
    \ {<< <<n, v1>>, <<n, v2>> >> : n \in names, v1 \in values, v2 \in values}

\* MoeLogger(json_format, log_level, logging_fields, log_to_file, max_bytes)
Params(j, l, lf, tf, mb) ==
    [json_format |-> j, log_level |-> l, logging_fields |-> lf, log_to_file |-> tf,
     max_bytes |-> mb]

ServiceField == << <<"service", "svc_name">> >>

Today == "2024-01-01"

\* MoeLogger(**p), today
ConstructWith(p) ==
    Construct(p.json_format, p.log_level, p.logging_fields, p.log_to_file, p.max_bytes, Today)

-----------------------------------------------------------------------------
(* Spec: plain and structured facades with every kind of minimum level,    *)
(* with and without a file handler; update_filter(app_name=v) with truthy, *)
(* falsy and None values; logging calls below and at the default minimum   *)
(* level.                                                                  *)

LevelInputs == {"WARNING", "debug", "VERBOSE"}

ParamInputs ==
    {Params(j, l, IF j THEN ServiceField ELSE <<>>, tf, 1) :
        j \in BOOLEAN, l \in LevelInputs, tf \in BOOLEAN}

AppNameValues == {Str("checkout"), EmptyStr, PyNone}

Init ==
    /\ FreshProcess
    /\ files = <<>>

Next ==
    \/ \E p \in ParamInputs : ConstructWith(p)
    \/ \E i \in 1..MaxFacades : SetupLogger(i)
    \/ \E i \in 1..MaxFacades, kw \in OneKwarg({"app_name"}, AppNameValues) : UpdateFilter(i, kw)
    \/ \E f \in {"info", "warning"} : Emit(f, <<>>)

Spec == Init /\ [][Next]_vars

\* the filters of facade i's console handler whose extra_attr has the key
Declaring(i, name) ==
    {k \in 1..Len(facades[i].console_filters) :
        DictHas(filters[facades[i].console_filters[k]], name)}

(* C1: after update_filter calls on one facade that all name the same attribute,
   whatever values they pass (truthy, falsy or None), the console handler carries
   exactly one filter declaring that name, holding the value of the last call. *)
C1_OneFilterPerName ==
    \A i \in 1..Len(facades) :
        DictHas(last_set[i], "app_name") =>
            /\ Cardinality(Declaring(i, "app_name")) = 1
            /\ \A k \in Declaring(i, "app_name") :
                  DictGet(filters[facades[i].console_filters[k]], "app_name", PyNone)
                      = DictGet(last_set[i], "app_name", PyNone)

\* a construction is the one step that adds a facade
Constructed == Len(facades') = Len(facades) + 1

(* C2: every construction, a second or later one included, leaves the root logger's
   handlers exactly [file handler, console handler] of the facade just built when it
   writes to a file, and exactly [console handler] of that facade otherwise. *)
C2_ConstructionInstallsHandlers ==
    [][Constructed =>
          LET i == Len(facades')
          IN  root_handlers' = IF facades'[i].log_to_file
                               THEN <<FileOf(i), ConsoleOf(i)>>
                               ELSE <<ConsoleOf(i)>>]_vars

\* the level the claim gives a minimum_level string
ClaimedLevel(s) ==
    IF Upper(s) \in {"DEBUG", "INFO", "WARN", "WARNING", "ERROR", "CRITICAL", "FATAL"}
    THEN StdNameToLevel[Upper(s)]
    ELSE StdNameToLevel["WARNING"]

(* C5: a construction with an unrecognized minimum level leaves both the console
   handler and the installed logging configuration at WARNING, and one with a
   recognized minimum level leaves both at that level. *)
C5_MinimumLevelFallback ==
    [][Constructed =>
          LET self == facades'[Len(facades')]
          IN  /\ self.console_level = ClaimedLevel(self.log_level)
              /\ root_level' = ClaimedLevel(self.log_level)]_vars

\* the declared extra fields of a structured console handler that have a source name
DeclaredSources(h) ==
    IF h.kind = "console" /\ facades[h.facade].json_format
    THEN {facades[h.facade].logging_fields[k] : k \in 1..Len(facades[h.facade].logging_fields)}
    ELSE {}

(* C8: formatting a record that lacks a dynamic attribute the format references
   never fails and renders the attribute as the empty string, its key present: for
   the structured formatter's declared fields and for the file handler's line and
   its app_name, with or without an attribute filter attached. *)
C8_MissingAttributeTolerated ==
    \A k \in 1..Len(emitted.outs) :
        LET o == emitted.outs[k]
        IN  /\ o.out.kind # "error"
            /\ (o.handler.kind = "file" /\ ~DictHas(o.attrs, "app_name")) =>
                  DictGet(o.out.obj, "app.name", PyNone) = EmptyStr
            /\ \A d \in DeclaredSources(o.handler) :
                  (d[2] # "" /\ ~DictHas(o.attrs, d[2])) =>
                      DictGet(o.out.obj, d[1], PyNone) = EmptyStr

-----------------------------------------------------------------------------
(* SpecAttrs: one structured facade, with every kind of extra-field        *)
(* declaration, with or without a file handler; update_filter with one and *)
(* with two keyword arguments over two attribute names; records with and   *)
(* without an extra attribute of their own.                                *)

FieldsInputs ==
    { ServiceField,
      << <<"service", "svc_name">>, <<"blank", "">>, <<"app", "app_name">> >>,
      << <<"message", "svc_name">> >> }

AttrParamInputs ==
    {Params(TRUE, "WARNING", lf, tf, 1) : lf \in FieldsInputs, tf \in BOOLEAN}

AttrNames == {"app_name", "svc_name"}
AttrValues == {Str("checkout"), Str("cart")}

ExtraInputs == { <<>>, << <<"svc_name", Str("basket")>> >> }

AttrKwargs == OneKwarg(AttrNames, AttrValues) \cup TwoKwargs(AttrNames, {Str("checkout")})

NextAttrs ==
    \/ \E p \in AttrParamInputs : facades = <<>> /\ ConstructWith(p)
    \/ \E i \in 1..MaxFacades : SetupLogger(i)
    \/ \E i \in 1..MaxFacades, kw \in AttrKwargs : UpdateFilter(i, kw)
    \/ \E x \in ExtraInputs : Emit("warning", x)

SpecAttrs == Init /\ [][NextAttrs]_vars

\* a step that is a logging call
Emits == \E f \in DOMAIN module_attrs, x \in ExtraInputs : Emit(f, x)

(* C6: after update_filter(name=v) returns, every record that then passes through
   the console handler or the file handler of that facade carries the attribute name
   with the value v when it is formatted, until the next update_filter for that name:
   after any earlier update_filter calls, and the same value in both handlers. *)
C6_UpdateReachesEveryRecord ==
    [][Emits =>
          \A k \in 1..Len(emitted'.outs) :
              LET o == emitted'.outs[k]
              IN  o.handler.kind \in {"console", "file"} =>
                      \A n \in AttrNames :
                          DictHas(last_set[o.handler.facade], n) =>
                              /\ DictHas(o.attrs, n)
                              /\ DictGet(o.attrs, n, PyNone)
                                     = DictGet(last_set[o.handler.facade], n, PyNone)]_vars

\* the keys of the declared extra fields that have a source name, in declaration order
RECURSIVE DeclaredKeys(_)
DeclaredKeys(logging_fields) ==
    IF logging_fields = <<>> THEN <<>>
    ELSE (IF logging_fields[1][2] # "" THEN <<logging_fields[1][1]>> ELSE <<>>)
         \o DeclaredKeys(Tail(logging_fields))

\* the canonical fields of the record a handler formatted
CanonicalFields(o) ==
    << <<"@timestamp", Timestamp(o.record)>>,
       <<"log.level", Str(o.record.levelname)>>,
       <<"message", CanonicalMessage(o.record)>> >>

(* C7: whatever the record and the extra-field declarations, the structured
   formatter's object has exactly the keys @timestamp, log.level, message and then
   one key per declared field with a non-empty source name, in declaration order,
   and the three canonical keys keep their canonical values. *)
C7_StructuredKeysAndOrder ==
    \A k \in 1..Len(emitted.outs) :
        LET o == emitted.outs[k]
        IN  o.out.kind = "json" =>
                /\ DictKeys(o.out.obj) =
                       <<"@timestamp", "log.level", "message">>
                       \o DeclaredKeys(facades[o.handler.facade].logging_fields)
                /\ \A c \in 1..3 : o.out.obj[c] = CanonicalFields(o)[c]

-----------------------------------------------------------------------------
(* SpecEndToEnd: the structured facade with the extra field service, built *)
(* with the default level, next to facades built otherwise; the attribute  *)
(* svc_name set through update_filter or passed with the record; records   *)
(* of severity INFO and WARNING.                                           *)

\* max_bytes: int = 3*1024*1024
DefaultMaxBytes == 3 * 1024 * 1024

\* MoeLogger(json_format=True, logging_fields={"service": "svc_name"})
EndToEndParams == Params(TRUE, "WARNING", ServiceField, FALSE, DefaultMaxBytes)

EndToEndParamInputs ==
    { EndToEndParams,
      Params(TRUE, "debug", ServiceField, FALSE, DefaultMaxBytes),
      Params(FALSE, "info", <<>>, FALSE, DefaultMaxBytes) }

Checkout == Str("checkout")

EndToEndKwargs == OneKwarg({"svc_name"}, {Checkout, Str("cart")})

EndToEndExtras == { <<>>, << <<"svc_name", Checkout>> >> }

NextEndToEnd ==
    \/ \E p \in EndToEndParamInputs : ConstructWith(p)
    \/ \E i \in 1..MaxFacades : SetupLogger(i)
    \/ \E i \in 1..MaxFacades, kw \in EndToEndKwargs : UpdateFilter(i, kw)
    \/ \E f \in {"info", "warning"}, x \in EndToEndExtras : Emit(f, x)

SpecEndToEnd == Init /\ [][NextEndToEnd]_vars

\* the facades built as the scenario builds its facade
EndToEndFacades ==
    {i \in 1..Len(facades) :
        Params(facades[i].json_format, facades[i].log_level, facades[i].logging_fields,
               facades[i].log_to_file, facades[i].max_bytes) = EndToEndParams}

\* what the console handler of facade i produced for the last record
ConsoleOutputs(i) ==
    {k \in 1..Len(emitted.outs) : emitted.outs[k].handler = ConsoleOf(i)}

ServiceIsCheckout(o) ==
    /\ o.out.kind = "json"
    /\ DictHas(o.out.obj, "service")
    /\ DictGet(o.out.obj, "service", EmptyStr) = Checkout

(* C9: for the facade built with structured output, the extra fields
   {service: svc_name} and defaults otherwise, a record of severity INFO produces
   no output from the facade's console handler (the default minimum level WARNING
   drops it); a record that the console handler handles produces exactly one output,
   and when svc_name = "checkout" is the record's dynamic attribute that output is
   an object whose service field equals "checkout". *)
C9_EndToEnd ==
    \A i \in EndToEndFacades :
        /\ emitted.levelno < StdNameToLevel["WARNING"] => ConsoleOutputs(i) = {}
        /\ Cardinality(ConsoleOutputs(i)) <= 1
        /\ \A k \in ConsoleOutputs(i) :
               DictGet(emitted.outs[k].attrs, "svc_name", EmptyStr) = Checkout
                   => ServiceIsCheckout(emitted.outs[k])

\* a WARNING record with svc_name = "checkout" came out of the scenario's facade
C9_CheckoutWritten ==
    \E i \in EndToEndFacades : \E k \in ConsoleOutputs(i) :
        /\ emitted.func = "warning"
        /\ DictGet(emitted.outs[k].attrs, "svc_name", EmptyStr) = Checkout
        /\ ServiceIsCheckout(emitted.outs[k])

\* C9 as stated: emitting one INFO record with svc_name = "checkout" produces one
\* console output object of the facade whose service field equals "checkout"
C9_InfoRecordWritten ==
    [][\A i \in EndToEndFacades :
           Emit("info", << <<"svc_name", Checkout>> >>)
               => \E k \in 1..Len(emitted'.outs) :
                      /\ emitted'.outs[k].handler = ConsoleOf(i)
                      /\ ServiceIsCheckout(emitted'.outs[k])]_vars

-----------------------------------------------------------------------------
(* SpecLevels: direct calls of addLoggingLevel, with names that differ     *)
(* from registered ones in case only, with and without a method name,      *)
(* before and after facades are built; calls of the registered callables.  *)

LevelNameInputs == {"TIMER", "Timer", "TRACE", "trace", "Notset"}
LevelNumInputs == {5, 7}
MethodNameInputs == {"", "tick"}
FuncInputs == {"warning", "debug", "timer", "trace", "tick", "notset"}

LevelsParamInputs ==
    {Params(FALSE, l, <<>>, FALSE, DefaultMaxBytes) : l \in {"WARNING", "debug"}}

NextLevels ==
    \/ \E p \in LevelsParamInputs : ConstructWith(p)
    \/ \E i \in 1..MaxFacades : SetupLogger(i)
    \/ \E n \in LevelNameInputs, r \in LevelNumInputs, m \in MethodNameInputs :
           RegisterLevel(n, r, m)
    \/ \E f \in FuncInputs : Emit(f, <<>>)

SpecLevels == Init /\ [][NextLevels]_vars

\* the name is registered already: it matches a registered severity name
\* case-insensitively, or the method/attribute name derived from it is defined
AlreadyRegistered(levelName) ==
    \/ \E m \in DOMAIN name_to_level : Lower(m) = Lower(levelName)
    \/ Lower(levelName) \in DOMAIN module_attrs
    \/ Lower(levelName) \in DOMAIN logger_attrs

(* C3: registering a severity name that is already registered (matching
   case-insensitively, or with its derived method/attribute name defined), with any
   rank, returns False and leaves the name->rank mapping, the rank->name mapping
   and the severity-named callables unchanged; every construction of the facade
   keeps TIMER = CRITICAL+5 and APP_INFO = CRITICAL+6 as they were registered. *)
C3_RegistrationIdempotent ==
    [][/\ \A n \in LevelNameInputs, r \in LevelNumInputs :
              AlreadyRegistered(n) /\ RegisterLevel(n, r, "")
                  => last_result' = "False" /\ UNCHANGED registry
       /\ Constructed =>
              /\ name_to_level'["TIMER"] =
                     IF "TIMER" \in DOMAIN name_to_level THEN name_to_level["TIMER"]
                     ELSE StdNameToLevel["CRITICAL"] + 5
              /\ name_to_level'["APP_INFO"] =
                     IF "APP_INFO" \in DOMAIN name_to_level THEN name_to_level["APP_INFO"]
                     ELSE StdNameToLevel["CRITICAL"] + 6]_vars

-----------------------------------------------------------------------------
(* SpecFile: facades with a file handler built over every log directory    *)
(* that holds today's file at any size and any of its numbered successors, *)
(* for two dates and several thresholds; the files grow as records are     *)
(* written.                                                                *)

Tomorrow == "2024-01-02"
DateInputs == {Today, Tomorrow}
MaxBytesInputs == {0, 1}

NumberedNames(date) == {LogFileName(date, n) : n \in 1..MaxCount}

\* the log directories the process may start in
Disks ==
    LET withPrimary == {<<>>} \cup {LogFileName(Today, -1) :> size : size \in 0..MaxFileSize}
    IN  {primary @@ [name \in numbered |-> 0] :
             primary \in withPrimary, numbered \in SUBSET NumberedNames(Today)}

InitFile ==
    /\ FreshProcess
    /\ files \in Disks

NextFile ==
    \/ \E mb \in MaxBytesInputs, d \in DateInputs :
           Construct(FALSE, "WARNING", <<>>, TRUE, mb, d)
    \/ \E i \in 1..MaxFacades : UpdateFilter(i, << <<"app_name", Checkout>> >>)
    \/ Emit("warning", <<>>)

SpecFile == InitFile /\ [][NextFile]_vars

\* the numbered files of the date that are on disk
NumberedOnDisk(fs, date) == {name \in DOMAIN fs : name.date = date /\ name.n >= 1}

\* the choice the contract asks for, with the bound on the search
RightChoice(fs, date, max_bytes, chosen) ==
    /\ chosen.date = date
    /\ IF ~IsFile(fs, LogFileName(date, -1)) \/ fs[LogFileName(date, -1)] <= max_bytes
       THEN chosen.n = -1
       ELSE /\ chosen.n >= 1
            /\ ~IsFile(fs, chosen)
            /\ \A m \in 1..(chosen.n - 1) : IsFile(fs, LogFileName(date, m))
    /\ chosen.n <= Cardinality(NumberedOnDisk(fs, date)) + 1

(* C4: for every date D, every log directory and every threshold max_bytes, the
   file handler's file is D.log when D.log does not exist or its size does not
   exceed max_bytes, and otherwise D.n.log for the smallest n >= 1 such that D.n.log
   is not on disk; the search ends after at most one step more than there are
   numbered files. *)
C4_FileNameSelection ==
    [][\A mb \in MaxBytesInputs \cup {MaxFileSize}, d \in DateInputs :
           Construct(FALSE, "WARNING", <<>>, TRUE, mb, d)
               => RightChoice(files, d, mb, facades'[Len(facades')].log_file)]_vars

\* D.log oversized, D.1.log present, and a facade that chose D.2.log
C4_SecondSuccessorChosen ==
    \E i \in 1..Len(facades) :
        /\ facades[i].log_file = LogFileName(Today, 2)
        /\ files[LogFileName(Today, -1)] > facades[i].max_bytes
        /\ IsFile(files, LogFileName(Today, 1))

-----------------------------------------------------------------------------
(* SpecThreads: one facade with a file and a structured console handler,   *)
(* and threads that call update_filter and emit records at once.  Nothing  *)
(* in the code takes a lock around the filters or their maps, so a thread  *)
(* may run between any two of the steps below: the scan of update_filter,  *)
(* the two addFilter calls of _add_filter, and the handling of one record  *)
(* by one handler after another.                                           *)

MaxThreads == 2

Threads == 1..MaxThreads

OldValue == Str("old")
NewValue == Str("new")
ThreadKwargs == OneKwarg({"app_name"}, {OldValue, NewValue})

ThreadParams == Params(TRUE, "WARNING", << <<"app", "app_name">> >>, TRUE, DefaultMaxBytes)

Started(t, st) == (t :> st) @@ thr
Finished(t) == [u \in (DOMAIN thr) \ {t} |-> thr[u]]

\* _update_filter up to the end of its for loop
UpdateFilterScan(t, i, kwargs) ==
    /\ t \notin DOMAIN thr
    /\ i \in 1..Len(facades)
    /\ LET field == kwargs[1][1]
           value == kwargs[1][2]
           hit == FirstDeclaring(filters, facades[i].console_filters, field)
       IN  IF hit # 0
           THEN /\ filters' = [filters EXCEPT ![hit] = DictSet(@, field, value)]
                /\ UNCHANGED thr
           ELSE /\ thr' = Started(t, [pc |-> "add_filter", facade |-> i, kwargs |-> kwargs])
                /\ UNCHANGED filters
    /\ UNCHANGED <<facades, root_handlers, root_level, registry, last_result, emitted,
                   last_set, files>>

\* _add_filter: ExtraAttributes(**kwargs) and self.console_handler.addFilter(_filter)
AddFilterConsole(t) ==
    /\ t \in DOMAIN thr
    /\ thr[t].pc = "add_filter"
    /\ Len(filters) < MaxFilters
    /\ LET i == thr[t].facade
           id == Len(filters) + 1
       IN  /\ filters' = Append(filters, thr[t].kwargs)
           /\ facades' = [facades EXCEPT ![i].console_filters = Append(@, id)]
           /\ thr' = IF facades[i].has_file
                     THEN [thr EXCEPT ![t] = [pc |-> "add_file_filter", facade |-> i, id |-> id]]
                     ELSE Finished(t)
    /\ UNCHANGED <<root_handlers, root_level, registry, last_result, emitted, last_set, files>>

\* _add_filter: self.file_handler.addFilter(_filter)
AddFilterFile(t) ==
    /\ t \in DOMAIN thr
    /\ thr[t].pc = "add_file_filter"
    /\ facades' = [facades EXCEPT ![thr[t].facade].file_filters = Append(@, thr[t].id)]
    /\ thr' = Finished(t)
    /\ UNCHANGED <<filters, root_handlers, root_level, registry, last_result, emitted,
                   last_set, files>>

\* logging.<func>(msg): the record is made, and dropped when the root logger's level
\* is above it
EmitCall(t, func) ==
    /\ t \notin DOMAIN thr
    /\ Len(root_handlers) > 0
    /\ func \in DOMAIN module_attrs
    /\ module_attrs[func].kind = "func"
    /\ LET levelno == module_attrs[func].num
           record == MakeRecord(CurrentLogging, levelno, <<"hello">>, <<>>)
       IN  IF levelno >= root_level
           THEN /\ thr' = Started(t, [pc |-> "handle", func |-> func, record |-> record,
                                      hs |-> root_handlers, outs |-> <<>>])
                /\ UNCHANGED emitted
           ELSE /\ emitted' = [func |-> func, levelno |-> levelno, outs |-> <<>>]
                /\ UNCHANGED thr
    /\ UNCHANGED <<facades, filters, root_handlers, root_level, registry, last_result,
                   last_set, files>>

\* Logger.callHandlers, one handler: hdlr.handle(record), on the record the handlers
\* before it have filtered; after the last handler the call returns
EmitHandle(t) ==
    /\ t \in DOMAIN thr
    /\ thr[t].pc = "handle"
    /\ LET st == thr[t]
           outs == CallHandlers(facades, filters, <<Head(st.hs)>>, st.record, st.outs)
           record == IF Len(outs) > Len(st.outs) THEN outs[Len(outs)].record ELSE st.record
           written == AppendLines(facades, files, SubSeq(outs, Len(st.outs) + 1, Len(outs)))
       IN  /\ \A name \in DOMAIN written : written[name] <= MaxFileSize
           /\ files' = written
           /\ IF Tail(st.hs) = <<>>
              THEN /\ emitted' = [func |-> st.func, levelno |-> st.record.levelno, outs |-> outs]
                   /\ thr' = Finished(t)
              ELSE /\ thr' = [thr EXCEPT ![t] = [st EXCEPT !.hs = Tail(@), !.record = record,
                                                           !.outs = outs]]
                   /\ UNCHANGED emitted
    /\ UNCHANGED <<facades, filters, root_handlers, root_level, registry, last_result, last_set>>

NextThreads ==
    \/ facades = <<>> /\ ConstructWith(ThreadParams)
    \/ \E t \in Threads, kw \in ThreadKwargs : UpdateFilterScan(t, 1, kw)
    \/ \E t \in Threads : AddFilterConsole(t)
    \/ \E t \in Threads : AddFilterFile(t)
    \/ \E t \in Threads : EmitCall(t, "warning")
    \/ \E t \in Threads : EmitHandle(t)

SpecThreads == Init /\ [][NextThreads]_vars

\* the value a handler saw for the attribute when it formatted the record
SeenValue(o, name) == DictGet(o.attrs, name, <<"#absent">>)

(* C10: under every interleaving of threads that call update_filter(name, v) and
   threads that emit records, no record is formatted with a value for name that no
   call passed, the file and the console rendering of one record agree on the
   value, and no two attribute filters of a handler declare the same name. *)
C10_NoTornState ==
    /\ \A k \in 1..Len(emitted.outs) :
           SeenValue(emitted.outs[k], "app_name") \in {OldValue, NewValue, <<"#absent">>}
    /\ \A k, m \in 1..Len(emitted.outs) :
           SeenValue(emitted.outs[k], "app_name") = SeenValue(emitted.outs[m], "app_name")
    /\ \A i \in 1..Len(facades) :
           Cardinality({k \in 1..Len(facades[i].console_filters) :
                           DictHas(filters[facades[i].console_filters[k]], "app_name")}) <= 1

====
